---- MODULE Spec2Model ----
(***************************************************************************)
(* Model of publish.py, the release driver of Sunde.FluentMonads:          *)
(*   load_dotenv; read NUGET_API_KEY; dotnet build; dotnet pack;           *)
(*   pick the latest *.nupkg of src/Monads/bin/Release; dotnet nuget push. *)
(* The interpreter runs main() to its end or to the first sys.exit.        *)
(***************************************************************************)
EXTENDS Integers, Sequences, FiniteSets

\* ------------------------------------------------------------------ bounds
\* Timestamps of directory entries range over 1..MaxTime.
MaxTime == 3
\* Exit codes of a child process range over 0..MaxCode.
MaxCode == 2
\* Signals that can kill a child range over 1..MaxSig (returncode -1..-MaxSig).
MaxSig == 1

\* ---------------------------------------------------------- optional values
\* Python's None and a present value.
None == <<>>
Some(v) == <<v>>

\* ------------------------------------------------------------ the platform
\* os.name of the interpreter that runs the script.
Platforms == {"posix", "nt"}

\* --------------------------------------------------------------- credential
\* Values NUGET_API_KEY can have in the process environment.
EnvValues == {None, Some(""), Some("abc123")}
\* Values NUGET_API_KEY can have in the local .env file.
DotenvValues == {None, Some(""), Some("xyz789")}

\* load_dotenv() with its default override=False: a key of the .env file is
\* copied into os.environ only when the key is not in os.environ already.
load_dotenv(env, file) == IF env = None /\ file # None THEN file ELSE env

\* os.getenv('NUGET_API_KEY'): the value in os.environ, or None.
getenv(env) == env

\* A test that lets the empty string pass.
truthy_not_none(v) == v # None

\* Python truthiness of an optional string: None and '' are false.
truthy(v) == v # None /\ v # Some("")

\* ---------------------------------------------------------------- messages
MissingKeyMessage == "Error: NUGET_API_KEY environment variable is not set."
NoPackagesMessage == "Error: No .nupkg files found."

\* A print that is lost.
stdout_write_lost(out, msg) == out

\* print(msg): one more line on standard output.
stdout_write(out, msg) == Append(out, msg)

\* ----------------------------------------------------------- the directory
\* The scanned directory and the names that can occur under it.  sub is the
\* sub-directory of the entry ("" for an entry directly in the directory).
ReleaseDir == "src/Monads/bin/Release"
FileNames ==
  { [sub |-> "",       stem |-> "pkg-1.0.0", ext |-> "nupkg"],
    [sub |-> "",       stem |-> "pkg-1.1.0", ext |-> "nupkg"],
    [sub |-> "",       stem |-> "pkg-1.1.0", ext |-> "snupkg"],
    [sub |-> "net8.0", stem |-> "pkg-0.9.0", ext |-> "nupkg"] }

\* Timestamps of an entry: birth is when it was created, change is when its
\* inode was last changed (never before its creation).  Absent marks a name
\* with no entry.  Dangling is an entry the scan lists and os.stat cannot
\* reach: a symbolic link whose target is missing, or an entry that is removed
\* between the scan and the stat.
Absent == [kind |-> "absent", birth |-> 0, change |-> 0]
Dangling == [kind |-> "dangling", birth |-> 0, change |-> 0]
Metas == { [kind |-> "file", birth |-> b, change |-> c] : b \in 1..MaxTime, c \in 1..MaxTime }
Stamps == { m \in Metas : m.birth <= m.change }
Directories == [FileNames -> Stamps \cup {Absent, Dangling}]

\* What a successful 'dotnet pack' can leave in the directory: nothing new,
\* or one top-level file written now (time MaxTime); a file that existed is
\* either rewritten in place (birth kept) or replaced (birth now).
PackWrites(d) ==
  {d} \cup
  UNION { { [d EXCEPT ![f] = [kind |-> "file", birth |-> b, change |-> MaxTime]] :
              b \in {MaxTime} \cup (IF d[f].kind = "file" THEN {d[f].birth} ELSE {}) } :
          f \in { g \in FileNames : g.sub = "" } }

\* A recursive scan ('**/*.nupkg').
glob_recursive(d) == { f \in FileNames : d[f] # Absent /\ f.ext = "nupkg" }

\* A scan with the pattern '*'.
glob_any(d) == { f \in FileNames : d[f] # Absent /\ f.sub = "" }

\* Path(directory).glob(pattern) for the pattern '*.nupkg': the entries
\* directly in the directory whose name ends in '.nupkg' (an entry is matched
\* by its name, whatever its type).
glob(d) == { f \in FileNames : d[f] # Absent /\ f.sub = "" /\ f.ext = "nupkg" }

\* list(...) of the glob: the matches in the order the file system yields them.
Listings(S) ==
  { s \in [1..Cardinality(S) -> S] : \A i, j \in 1..Cardinality(S) : i # j => s[i] # s[j] }

\* os.path.getctime: the creation time on Windows, the time of the last
\* metadata change on Unix (for an entry os.stat can reach).
getctime(platform, m) == IF platform = "nt" THEN m.birth ELSE m.change

\* os.path.getctime raises OSError (FileNotFoundError) for an entry os.stat
\* cannot reach; max() calls the key on every element of the list, so one
\* such entry makes max(packages, key=os.path.getctime) raise.
getctime_raises(packages, d) == \E i \in DOMAIN packages : d[packages[i]].kind = "dangling"

\* What the interpreter writes on standard error for the uncaught exception.
TracebackMessage == "FileNotFoundError: [Errno 2] No such file or directory"

\* max(packages, key=os.path.getctime): scans left to right and replaces the
\* best element only by a strictly greater one (the first maximum wins).
RECURSIVE MaxFrom(_, _, _, _, _)
MaxFrom(packages, i, best, platform, d) ==
  IF i > Len(packages) THEN best
  ELSE IF getctime(platform, d[packages[i]]) > getctime(platform, d[best])
       THEN MaxFrom(packages, i + 1, packages[i], platform, d)
       ELSE MaxFrom(packages, i + 1, best, platform, d)

max_package(packages, platform, d) == MaxFrom(packages, 2, packages[1], platform, d)

\* str(package_path): the directory and the file name.
PathOf(f) == [directory |-> ReleaseDir, sub |-> f.sub, name |-> f.stem, suffix |-> f.ext]

\* ------------------------------------------------------------ the pipeline
ExternalSteps == {"build", "pack", "publish"}
Steps == ExternalSteps \cup {"select"}

\* The command strings of main, as the parts the f-string concatenates
\* (path and key are main's locals package_path and nuget_api_key).
Command(step, path, key) ==
  CASE step = "build"   -> << "dotnet build -c Release src/" >>
    [] step = "pack"    -> << "dotnet pack -c Release src/" >>
    [] step = "publish" -> << "dotnet nuget push ", path[1], " -k ", key[1],
                              " -s https://api.nuget.org/v3/index.json" >>

\* A main that scans the directory before it packs.
NextPc_scan_first(step) ==
  CASE step = "build"   -> "select"
    [] step = "select"  -> "pack"
    [] step = "pack"    -> "publish"
    [] step = "publish" -> "return"

\* The statement of main that follows a step.
NextPc(step) ==
  CASE step = "build"   -> "pack"
    [] step = "pack"    -> "select"
    [] step = "select"  -> "publish"
    [] step = "publish" -> "return"

\* The position of main while subprocess.run blocks on the child of a step.
Wait(step) ==
  CASE step = "build"   -> "build_wait"
    [] step = "pack"    -> "pack_wait"
    [] step = "publish" -> "publish_wait"

\* result.returncode of subprocess.run: the exit code of the child, or -N
\* when signal N killed it (POSIX only).
ReturnCodes(platform) ==
  IF platform = "posix" THEN (0 - MaxSig)..MaxCode ELSE 0..MaxCode

\* A test that misses a child killed by a signal.
Failed_positive(rc) == rc > 0

\* run_command's test 'result.returncode != 0'.
Failed(rc) == rc # 0

\* An exit that reports every failure as 1.
ExitStatus_one(platform, arg) == IF arg = 0 THEN 0 ELSE 1

\* The exit status the operating system reports for sys.exit(arg): the low
\* 8 bits of arg on POSIX; on Windows the exit code is 32 bits wide and the
\* codes 0..MaxCode pass unchanged.
ExitStatus(platform, arg) == IF platform = "posix" THEN arg % 256 ELSE arg

\* ------------------------------------------------------------------- state
VARIABLES
  pc,             \* the statement of main that runs next, "<step>_wait" while
                  \* subprocess.run blocks, "exited" after the process ended
  platform,       \* os.name
  environ,        \* os.environ's NUGET_API_KEY
  dotenv_file,    \* the .env file's NUGET_API_KEY
  dir,            \* content of src/Monads/bin/Release
  nuget_api_key,  \* main's local
  packages,       \* get_latest_package's local
  package_path,   \* main's local
  commands,       \* the commands handed to subprocess.run, in order
  trace,          \* the steps started and ended, in order
  stdout,         \* the lines the driver printed
  stderr,         \* what the interpreter wrote on standard error
  exit_status     \* the exit status of the process

vars == << pc, platform, environ, dotenv_file, dir, nuget_api_key, packages,
           package_path, commands, trace, stdout, stderr, exit_status >>

Started(step) == [ev |-> "start", step |-> step, rc |-> 0]
Ended(step, rc) == [ev |-> "end", step |-> step, rc |-> rc]

Init ==
  /\ pc = "load_dotenv"
  /\ platform \in Platforms
  /\ environ \in EnvValues
  /\ dotenv_file \in DotenvValues
  /\ dir \in Directories
  /\ nuget_api_key = None
  /\ packages = <<>>
  /\ package_path = None
  /\ commands = <<>>
  /\ trace = <<>>
  /\ stdout = <<>>
  /\ stderr = <<>>
  /\ exit_status = None

\* sys.exit(arg)
Exit(arg) ==
  /\ pc' = "exited"
  /\ exit_status' = Some(ExitStatus(platform, arg))

\* main, line 23
LoadDotenv ==
  /\ pc = "load_dotenv"
  /\ environ' = load_dotenv(environ, dotenv_file)
  /\ pc' = "getenv"
  /\ UNCHANGED << platform, dotenv_file, dir, nuget_api_key, packages,
                  package_path, commands, trace, stdout, stderr, exit_status >>

\* main, lines 25-28
GetCredential ==
  /\ pc = "getenv"
  /\ nuget_api_key' = getenv(environ)
  /\ IF ~truthy(nuget_api_key')
     THEN /\ stdout' = stdout_write(stdout, MissingKeyMessage)
          /\ Exit(1)
     ELSE /\ pc' = "build"
          /\ UNCHANGED << stdout, exit_status >>
  /\ UNCHANGED << platform, environ, dotenv_file, dir, packages, package_path,
                  commands, trace, stderr >>

\* run_command, line 10: subprocess.run starts the child and blocks.
RunCommandStart(step) ==
  /\ pc = step
  /\ commands' = Append(commands, Command(step, package_path, nuget_api_key))
  /\ trace' = Append(trace, Started(step))
  /\ pc' = Wait(step)
  /\ UNCHANGED << platform, environ, dotenv_file, dir, nuget_api_key, packages,
                  package_path, stdout, stderr, exit_status >>

\* run_command, lines 10-12: the child ended with returncode rc.
RunCommandEnd(step, rc) ==
  /\ pc = Wait(step)
  /\ trace' = Append(trace, Ended(step, rc))
  /\ IF Failed(rc)
     THEN Exit(rc)
     ELSE /\ pc' = NextPc(step)
          /\ UNCHANGED exit_status
  /\ UNCHANGED << platform, environ, dotenv_file, nuget_api_key, packages,
                  package_path, commands, stdout, stderr >>

BuildStart == RunCommandStart("build")

BuildEnd == \E rc \in ReturnCodes(platform) : RunCommandEnd("build", rc) /\ UNCHANGED dir

PackStart == RunCommandStart("pack")

PackEnd ==
  \E rc \in ReturnCodes(platform) :
    /\ RunCommandEnd("pack", rc)
    /\ dir' \in (IF rc = 0 THEN PackWrites(dir) ELSE {dir})

\* get_latest_package, lines 14-20, and the assignment of line 34.  An
\* OSError of line 20 is caught nowhere: the interpreter prints the traceback
\* and the process ends with status 1.
GetLatestPackage ==
  /\ pc = "select"
  /\ \E listing \in Listings(glob(dir)) :
       /\ packages' = listing
       /\ IF listing = <<>>
          THEN /\ stdout' = stdout_write(stdout, NoPackagesMessage)
               /\ trace' = trace \o << Started("select"), Ended("select", 1) >>
               /\ Exit(1)
               /\ UNCHANGED << package_path, stderr >>
          ELSE IF getctime_raises(listing, dir)
          THEN /\ stderr' = Append(stderr, TracebackMessage)
               /\ trace' = trace \o << Started("select"), Ended("select", 1) >>
               /\ Exit(1)
               /\ UNCHANGED << package_path, stdout >>
          ELSE /\ package_path' = Some(PathOf(max_package(listing, platform, dir)))
               /\ trace' = trace \o << Started("select"), Ended("select", 0) >>
               /\ pc' = NextPc("select")
               /\ UNCHANGED << stdout, stderr, exit_status >>
  /\ UNCHANGED << platform, environ, dotenv_file, dir, nuget_api_key, commands >>

PublishStart == RunCommandStart("publish")

PublishEnd == \E rc \in ReturnCodes(platform) : RunCommandEnd("publish", rc) /\ UNCHANGED dir

\* main returns and the interpreter ends with status 0.
Return ==
  /\ pc = "return"
  /\ Exit(0)
  /\ UNCHANGED << platform, environ, dotenv_file, dir, nuget_api_key, packages,
                  package_path, commands, trace, stdout, stderr >>

Next ==
  \/ LoadDotenv
  \/ GetCredential
  \/ BuildStart
  \/ BuildEnd
  \/ PackStart
  \/ PackEnd
  \/ GetLatestPackage
  \/ PublishStart
  \/ PublishEnd
  \/ Return

Spec == Init /\ [][Next]_vars

\* subprocess.run returns when the child exits, and every statement of main
\* that can run does run.
FairSpec == Spec /\ WF_vars(Next)

TypeOK ==
  /\ pc \in {"load_dotenv", "getenv", "build", "build_wait", "pack", "pack_wait",
             "select", "publish", "publish_wait", "return", "exited"}
  /\ platform \in Platforms
  /\ dir \in Directories
  /\ Len(commands) <= 3

\* ===================================================================
\* Vocabulary of the properties
\* ===================================================================

\* The entries directly in the directory whose extension is .nupkg.
Candidates == { f \in FileNames : dir[f] # Absent /\ f.sub = "" /\ f.ext = "nupkg" }

\* The entries of the directory.
Present == { f \in FileNames : dir[f] # Absent }

HasEvent(e) == \E i \in DOMAIN trace : trace[i] = e

StartCount(step) ==
  Cardinality({ i \in DOMAIN trace : trace[i].ev = "start" /\ trace[i].step = step })

EndCount(step) ==
  Cardinality({ i \in DOMAIN trace : trace[i].ev = "end" /\ trace[i].step = step })

InProgress == { s \in Steps : StartCount(s) > EndCount(s) }

Last(s) == s[Len(s)]

\* The directory has been scanned.
ScanDone == StartCount("select") > 0

\* The run of a pipeline in which every step succeeds.
Canonical ==
  << Started("build"), Ended("build", 0), Started("pack"), Ended("pack", 0),
     Started("select"), Ended("select", 0), Started("publish"), Ended("publish", 0) >>

\* trace is a run of the pipeline in which no step but the last has failed.
CleanPrefix ==
  /\ Len(trace) <= Len(Canonical)
  /\ \A i \in DOMAIN trace :
       /\ trace[i].ev = Canonical[i].ev
       /\ trace[i].step = Canonical[i].step
       /\ i < Len(trace) => trace[i] = Canonical[i]

\* The external step that failed first, as the index of its end in trace.
FirstFailures ==
  { i \in DOMAIN trace :
      /\ trace[i].ev = "end" /\ trace[i].step \in ExternalSteps /\ trace[i].rc # 0
      /\ \A j \in 1..(i - 1) : ~(trace[j].ev = "end" /\ trace[j].rc # 0) }

\* The final outcomes of a run.
MissingCredential == trace = <<>> /\ commands = <<>> /\ ~ScanDone
FailedAt(step) ==
  /\ trace # <<>> /\ CleanPrefix
  /\ Last(trace).ev = "end" /\ Last(trace).step = step /\ Last(trace).rc # 0
NoArtifactFound == FailedAt("select") /\ stdout = << NoPackagesMessage >>
UncaughtError == FailedAt("select") /\ stderr # <<>>
FullSuccess == trace = Canonical

\* os.stat reaches every candidate.
AllStatable == \A f \in Candidates : dir[f].kind = "file"

Outcomes ==
  { o \in {"MissingCredential", "build", "pack", "NoArtifactFound", "publish", "success"} :
      CASE o = "MissingCredential" -> MissingCredential
        [] o = "NoArtifactFound"   -> NoArtifactFound
        [] o = "success"           -> FullSuccess
        [] OTHER                   -> FailedAt(o) }

\* The outcomes of the code: the six above and the uncaught OSError of the
\* scan.
OutcomesOfCode ==
  Outcomes \cup (IF UncaughtError THEN {"UncaughtError"} ELSE {})

\* ===================================================================
\* C1: when NUGET_API_KEY is absent or empty after load_dotenv, the run
\* ends with the missing-key message and status 1, and at no point has a
\* command been run or the directory been scanned.
\* ===================================================================
C1_MissingCredentialBeforeAnyStep ==
  (pc # "load_dotenv" /\ (environ = None \/ environ = Some(""))) =>
    /\ pc \in {"getenv", "exited"}
    /\ trace = <<>> /\ commands = <<>> /\ packages = <<>> /\ package_path = None
    /\ pc = "exited" => (exit_status = Some(1) /\ stdout = << MissingKeyMessage >>)

C1_Witness ==
  /\ pc = "exited" /\ environ = Some("") /\ dotenv_file = Some("xyz789")
  /\ exit_status = Some(1) /\ trace = <<>>

\* ===================================================================
\* C2: fail-fast: a step that failed is the last thing the run did: the
\* process has exited, no later step was started, and no step is started
\* twice.
\* ===================================================================
C2_FailFast ==
  /\ \A i \in DOMAIN trace :
       (trace[i].ev = "end" /\ trace[i].rc # 0) => (i = Len(trace) /\ pc = "exited")
  /\ \A s \in Steps : StartCount(s) <= 1
  /\ Len(commands) = Cardinality({ i \in DOMAIN trace :
                                     trace[i].ev = "start" /\ trace[i].step \in ExternalSteps })

C2_Witness ==
  /\ pc = "exited" /\ Len(trace) = 4
  /\ trace[2] = Ended("build", 0) /\ trace[4].step = "pack" /\ trace[4].rc # 0

\* ===================================================================
\* C3 as claimed: the exit status is 0 exactly on full success, the
\* returncode of the first failing external step when one fails, and 1 for
\* 'no artifact found' and 'missing credential'.
\* ===================================================================
C3_ExitStatusIsReturncode ==
  pc = "exited" =>
    /\ (exit_status = Some(0)) <=> (truthy(nuget_api_key) /\ FullSuccess)
    /\ \A i \in FirstFailures : exit_status = Some(trace[i].rc)
    /\ (NoArtifactFound \/ MissingCredential) => exit_status = Some(1)

\* C3 as amended: the exit status is 0 exactly on full success; the
\* returncode of the first failing external step when that is in 1..255;
\* 256 - N when signal N killed that step (returncode -N); and 1 for 'no
\* artifact found' and 'missing credential'.
C3_ExitStatusIsReturncodeMod256 ==
  pc = "exited" =>
    /\ (exit_status = Some(0)) <=> (truthy(nuget_api_key) /\ FullSuccess)
    /\ \A i \in FirstFailures :
         /\ trace[i].rc \in 1..255 => exit_status = Some(trace[i].rc)
         /\ trace[i].rc < 0 => exit_status = Some(256 + trace[i].rc)
         /\ trace[i].rc >= 0 - 64
    /\ (NoArtifactFound \/ MissingCredential) => exit_status = Some(1)

C3_Witness ==
  /\ pc = "exited" /\ Len(trace) = 2
  /\ trace[2] = Ended("build", 0 - 1) /\ exit_status = Some(255)

\* ===================================================================
\* C4 as claimed: with at least one candidate, the path returned is one
\* of the candidates and no candidate was created later than it.
\* ===================================================================
C4_LatestByCreation ==
  (ScanDone /\ Candidates # {}) =>
    /\ package_path # None
    /\ \E f \in Candidates :
         /\ package_path = Some(PathOf(f))
         /\ \A g \in Candidates : dir[g].birth <= dir[f].birth

\* What get_latest_package guarantees (C4 on the timestamp the code reads):
\* with at least one candidate, all of them reachable by os.stat, the path
\* returned is one of the candidates and no candidate has a greater
\* os.path.getctime than it, which is the creation time on Windows and the
\* time of the last metadata change on Unix; with a candidate os.stat cannot
\* reach, no path is returned and the process ends with status 1 and a
\* traceback.
C4_LatestByCtime ==
  /\ (ScanDone /\ Candidates # {} /\ ~AllStatable) =>
       (package_path = None /\ UncaughtError /\ pc = "exited"
        /\ exit_status = Some(1) /\ stdout = <<>>)
  /\ (ScanDone /\ Candidates # {} /\ AllStatable) =>
    /\ package_path # None
    /\ \E f \in Candidates :
         /\ package_path = Some(PathOf(f))
         /\ platform = "nt" => \A g \in Candidates : dir[g].birth <= dir[f].birth
         /\ platform = "posix" => \A g \in Candidates : dir[g].change <= dir[f].change

C4_Witness ==
  /\ platform = "posix" /\ package_path # None
  /\ \E f, g \in Candidates :
       /\ package_path = Some(PathOf(f))
       /\ dir[g].change < dir[f].change
       /\ dir[g].birth > dir[f].birth
       /\ packages = << g, f >>
  /\ \E h \in Present \ Candidates : \A f \in Candidates : dir[h].change > dir[f].birth

\* ===================================================================
\* C5: with no candidate in the directory, the scan returns no path: it
\* prints the no-package message and the process exits with status 1.
\* ===================================================================
C5_NoArtifactFound ==
  (ScanDone /\ Candidates = {}) =>
    /\ package_path = None /\ packages = <<>>
    /\ Last(trace) = Ended("select", 1)
    /\ pc = "exited" /\ exit_status = Some(1)
    /\ stdout = << NoPackagesMessage >> /\ stderr = <<>>

C5_Witness ==
  /\ ScanDone /\ Candidates = {} /\ pc = "exited"
  /\ \E f \in Present : f.sub # "" /\ f.ext = "nupkg"

\* ===================================================================
\* C6: with a credential, build and pack ended with 0 and no candidate in
\* the directory when it is scanned, the no-package message is printed
\* and publish is never started.
\* ===================================================================
C6_NoPublishWithoutArtifact ==
  ( /\ truthy(nuget_api_key)
    /\ HasEvent(Ended("build", 0)) /\ HasEvent(Ended("pack", 0))
    /\ ScanDone /\ Candidates = {} ) =>
    /\ \E i \in DOMAIN stdout : stdout[i] = NoPackagesMessage
    /\ StartCount("publish") = 0
    /\ Len(commands) = 2
    /\ pc \notin {"publish", "publish_wait", "return"}

C6_Witness ==
  /\ ScanDone /\ Candidates = {} /\ pc = "exited" /\ Len(commands) = 2
  /\ \E f \in Present : f.sub = "" /\ f.ext = "snupkg" /\ dir[f].change = MaxTime

\* ===================================================================
\* C7: with a non-empty credential, build and pack ended with 0 and a
\* candidate in the directory, publish is started exactly once, its command
\* holds the path the scan returned and the credential read at the start,
\* and when it ends with 0 the process exits with 0.
\* ===================================================================
C7_PublishOnceWithPathAndKey ==
  ( /\ truthy(nuget_api_key)
    /\ HasEvent(Ended("build", 0)) /\ HasEvent(Ended("pack", 0))
    /\ ScanDone /\ Candidates # {}
    /\ pc \in {"publish_wait", "return", "exited"} ) =>
    /\ StartCount("publish") = 1
    /\ Len(commands) = 3
    /\ package_path # None
    /\ Len(commands[3]) = 5
    /\ commands[3][2] = package_path[1]
    /\ commands[3][4] = environ[1]
    /\ nuget_api_key = environ
    /\ (pc = "exited" /\ HasEvent(Ended("publish", 0))) => exit_status = Some(0)

\* What main guarantees (C7 without the failure of the scan): the same, for
\* a directory in which os.stat reaches every candidate; with a candidate
\* it cannot reach, publish is never started.
C7_PublishOnceWhenStatable ==
  /\ (ScanDone /\ Candidates # {} /\ ~AllStatable) =>
       (StartCount("publish") = 0 /\ Len(commands) = 2 /\ pc = "exited")
  /\ ( /\ truthy(nuget_api_key)
       /\ HasEvent(Ended("build", 0)) /\ HasEvent(Ended("pack", 0))
       /\ ScanDone /\ Candidates # {} /\ AllStatable ) =>
       /\ pc \in {"publish", "publish_wait", "return", "exited"}
       /\ pc # "publish" =>
            /\ StartCount("publish") = 1
            /\ Len(commands) = 3
            /\ commands[3][2] = package_path[1]
            /\ commands[3][4] = environ[1]
       /\ (pc = "exited" /\ HasEvent(Ended("publish", 0))) => exit_status = Some(0)

C7_Witness ==
  /\ pc = "exited" /\ exit_status = Some(0)
  /\ environ = Some("xyz789") /\ Len(commands) = 3
  /\ commands[3][4] = "xyz789"
  /\ commands[3][2] \in { PathOf(f) : f \in Candidates }

\* ===================================================================
\* C8: the steps start in the order build, pack, scan, publish, each at
\* most once and only after the step before it ended with success, and
\* never are two steps in progress.
\* ===================================================================
C8_StrictSequentialOrder ==
  /\ CleanPrefix
  /\ Cardinality(InProgress) <= 1
  /\ \A s \in Steps : StartCount(s) <= 1

C8_Witness ==
  /\ pc = "publish_wait" /\ InProgress = {"publish"}
  /\ Len(trace) = 7 /\ trace[6] = Ended("select", 0)

\* ===================================================================
\* C9 as claimed: a run that ends with a non-zero status has printed a
\* message (on standard output or standard error).
\* ===================================================================
C9_EveryFailurePrints ==
  (pc = "exited" /\ exit_status # Some(0)) => (stdout # <<>> \/ stderr # <<>>)

\* C9 as amended: each of the three error conditions ends the process at
\* once with a non-zero status; the driver prints a message for 'no
\* artifact found' and 'missing credential', and prints nothing itself
\* when an external step fails.
C9_DriverPrintsItsOwnErrors ==
  /\ \A i \in DOMAIN trace :
       (trace[i].ev = "end" /\ trace[i].rc # 0) =>
          (pc = "exited" /\ exit_status # None /\ exit_status # Some(0))
  /\ (pc = "exited" /\ exit_status # Some(0)) =>
       /\ MissingCredential => stdout = << MissingKeyMessage >>
       /\ (FailedAt("select") /\ packages = <<>>) => stdout = << NoPackagesMessage >>
       /\ FirstFailures # {} => (stdout = <<>> /\ stderr = <<>>)

C9_Witness ==
  /\ pc = "exited" /\ stdout = <<>> /\ stderr = <<>> /\ Len(trace) = 8
  /\ Last(trace).step = "publish" /\ Last(trace).rc > 0
  /\ exit_status = Some(Last(trace).rc)

\* ===================================================================
\* C10: when every child that is started exits, the run ends, after at
\* most three commands and one scan, in exactly one of the outcomes
\* missing credential, build failed, pack failed, no artifact found,
\* publish failed, success.
\* ===================================================================
C10_TerminatesInOneOutcome ==
  /\ <>(pc = "exited")
  /\ [](/\ Len(commands) <= 3
        /\ StartCount("select") <= 1
        /\ pc = "exited" => Cardinality(Outcomes) = 1)

\* What main guarantees (C10 with the outcome the claim leaves out): the
\* same, with the uncaught OSError of the scan as a seventh outcome.
C10_TerminatesInOneOfSeven ==
  /\ <>(pc = "exited")
  /\ [](/\ Len(commands) <= 3
        /\ StartCount("select") <= 1
        /\ pc = "exited" => Cardinality(OutcomesOfCode) = 1)

C10_Witness ==
  /\ pc = "exited" /\ OutcomesOfCode = {"UncaughtError"}
  /\ exit_status = Some(1) /\ stdout = <<>> /\ Len(commands) = 2
  /\ \E f \in Candidates : dir[f] = Dangling
====
